---- MODULE Spec2Model ----
(***************************************************************************)
(* Anki Helper (Obsidian plugin), src/main.ts lines 312-720: the scope     *)
(* gate, the three line transformations of processFile and the settings    *)
(* handlers that recompile the scope patterns.                             *)
(*                                                                         *)
(* A string is a sequence of one-character strings, a document a sequence  *)
(* of such lines.  Indices are the source's 0-based indices; At(s, i) is   *)
(* the source's s[i].                                                      *)
(***************************************************************************)
EXTENDS Integers, Sequences, FiniteSets, TLC

\* ------------------------------------------------------------------------
\* Strings
\* ------------------------------------------------------------------------

\* The characters JavaScript's \s and String.prototype.trim treat as white
\* space, restricted to the ones the documents of this model contain.
WhiteSpace == {" ", "\t", "\r", "\n"}

\* The characters JavaScript's \d matches.
Digits == {"0", "1", "2", "3", "4", "5", "6", "7", "8", "9"}

\* The characters JavaScript's . does not match.
LineTerminators == {"\n", "\r"}

\* The grave accent U+0060, which a TLA+ string cannot hold: one character
\* like the others, written by its code point.
Backtick == "U+0060"

At(s, i) == s[i + 1]

Min(S) == CHOOSE x \in S : \A y \in S : x <= y

Max(S) == CHOOSE x \in S : \A y \in S : x >= y

\* s.slice(from)
Slice(s, from) == SubSeq(s, from + 1, Len(s))

\* s.trim()
Trim(s) ==
  LET keep == {i \in 1..Len(s) : s[i] \notin WhiteSpace}
  IN  IF keep = {} THEN <<>> ELSE SubSeq(s, Min(keep), Max(keep))

\* s.startsWith(p)
StartsWith(s, p) == Len(s) >= Len(p) /\ SubSeq(s, 1, Len(p)) = p

\* s.endsWith(p)
EndsWith(s, p) == Len(s) >= Len(p) /\ SubSeq(s, Len(s) - Len(p) + 1, Len(s)) = p

\* s.includes(p)
Includes(s, p) == \E i \in 0..(Len(s) - Len(p)) : SubSeq(s, i + 1, i + Len(p)) = p

\* "c".repeat(n)
Repeat(c, n) == [i \in 1..n |-> c]

\* a.splice(idx, del, ...ins), the array it leaves
Splice(a, idx, del, ins) ==
  LET at == IF idx > Len(a) THEN Len(a) ELSE idx
      to == IF at + del > Len(a) THEN Len(a) ELSE at + del
  IN  SubSeq(a, 1, at) \o ins \o SubSeq(a, to + 1, Len(a))

\* a.indexOf(x, from)
IndexOf(a, x, from) ==
  LET hits == {i \in from..(Len(a) - 1) : At(a, i) = x}
  IN  IF hits = {} THEN -1 ELSE Min(hits)

\* a.findIndex(l => P(l)) for the set P of the indices that satisfy it
FirstIndex(hits) == IF hits = {} THEN -1 ELSE Min(hits)

\* a.join(sep) for an array of strings
RECURSIVE Join(_, _)
Join(a, sep) ==
  IF Len(a) = 0 THEN <<>>
  ELSE IF Len(a) = 1 THEN a[1]
  ELSE a[1] \o sep \o Join(Tail(a), sep)

\* the k-th smallest element of a set of numbers
NthOf(S, k) == CHOOSE x \in S : Cardinality({y \in S : y < x}) = k - 1

\* raw.split(/\r?\n/): the pieces between the newlines, a carriage return
\* right before a newline being part of the separator
SplitLines(s) ==
  LET nl     == {i \in 1..Len(s) : s[i] = "\n"}
      n      == Cardinality(nl)
      pos(k) == IF k = 0 THEN 0 ELSE IF k = n + 1 THEN Len(s) + 1 ELSE NthOf(nl, k)
      piece(k) ==
        LET a == pos(k - 1) + 1
            b == pos(k) - 1
        IN  IF k <= n /\ b >= a /\ s[b] = "\r" THEN SubSeq(s, a, b - 1) ELSE SubSeq(s, a, b)
  IN  [k \in 1..(n + 1) |-> piece(k)]

\* value.split(/\n+/): a run of newlines is one separator
RECURSIVE SplitRunsFrom(_, _, _, _)
SplitRunsFrom(s, i, cur, out) ==
  IF i > Len(s) THEN Append(out, cur)
  ELSE IF s[i] = "\n"
       THEN IF i > 1 /\ s[i - 1] = "\n"
            THEN SplitRunsFrom(s, i + 1, <<>>, out)
            ELSE SplitRunsFrom(s, i + 1, <<>>, Append(out, cur))
  ELSE SplitRunsFrom(s, i + 1, Append(cur, s[i]), out)

SplitRuns(s) == SplitRunsFrom(s, 1, <<>>, <<>>)

\* a.filter(x => P(x)) for the set keep of the 1-based positions kept
RECURSIVE FilterFrom(_, _, _)
FilterFrom(a, keep, i) ==
  IF i > Len(a) THEN <<>>
  ELSE (IF i \in keep THEN <<a[i]>> ELSE <<>>) \o FilterFrom(a, keep, i + 1)

\* s.replace(/[cs]+/g, "") for a set cs of characters
DeleteChars(s, cs) ==
  LET keep == {i \in 1..Len(s) : s[i] \notin cs}
  IN  [k \in 1..Cardinality(keep) |-> s[NthOf(keep, k)]]

\* The replacement text of one match of s.replace(re, repl), from position i
\* of repl on: $$ is a dollar, $& the match, $ and a grave accent the text
\* before it, $ and an apostrophe the text after it; the regular expressions
\* of this program have no groups, so $1..$9 stay as written.
RECURSIVE Expand(_, _, _, _, _)
Expand(repl, i, matched, before, after) ==
  LET dollars == {k \in i..Len(repl) : repl[k] = "$"}
  IN  IF dollars = {} THEN SubSeq(repl, i, Len(repl))
      ELSE LET d    == Min(dollars)
               next == IF d < Len(repl) THEN repl[d + 1] ELSE ""
           IN  SubSeq(repl, i, d - 1) \o
               (CASE next = "$"      -> <<"$">> \o Expand(repl, d + 2, matched, before, after)
                  [] next = "&"      -> matched \o Expand(repl, d + 2, matched, before, after)
                  [] next = Backtick -> before \o Expand(repl, d + 2, matched, before, after)
                  [] next = "'"      -> after \o Expand(repl, d + 2, matched, before, after)
                  [] OTHER           -> <<"$">> \o Expand(repl, d + 1, matched, before, after))

\* s.replace(/pat/g, repl) for a literal pat and a replacement string repl,
\* from position i of s on
RECURSIVE ReplaceAllFrom(_, _, _, _)
ReplaceAllFrom(s, i, pat, repl) ==
  LET hits == {k \in i..(Len(s) - Len(pat) + 1) : SubSeq(s, k, k + Len(pat) - 1) = pat}
  IN  IF hits = {} THEN SubSeq(s, i, Len(s))
      ELSE LET k == Min(hits)
           IN  SubSeq(s, i, k - 1)
               \o Expand(repl, 1, pat, SubSeq(s, 1, k - 1), SubSeq(s, k + Len(pat), Len(s)))
               \o ReplaceAllFrom(s, k + Len(pat), pat, repl)

ReplaceAll(s, pat, repl) == ReplaceAllFrom(s, 1, pat, repl)

\* ------------------------------------------------------------------------
\* Literals of the source
\* ------------------------------------------------------------------------

\* '---', src/main.ts:325
Dashes == <<"-", "-", "-">>

\* "TARGET DECK", src/main.ts:419
Marker == <<"T", "A", "R", "G", "E", "T", " ", "D", "E", "C", "K">>

\* the placeholder of /filename/g, src/main.ts:428
FilenameToken == <<"f", "i", "l", "e", "n", "a", "m", "e">>

\* the line of one space tidyLists inserts, src/main.ts:506
SpaceLine == <<" ">>

\* the characters the heading clean-up deletes (grave accent, <, >),
\* src/main.ts:449
HeadingJunk == {Backtick, "<", ">"}

\* ------------------------------------------------------------------------
\* findYamlEnd, src/main.ts:324-330
\* ------------------------------------------------------------------------

\* findYamlEnd returning the index of the closing line itself
findYamlEndAtClosing(lines) ==
  IF Len(lines) > 0 /\ At(lines, 0) = Dashes
  THEN LET end == IndexOf(lines, Dashes, 1)
       IN  IF end >= 0 THEN end ELSE 0
  ELSE 0

findYamlEnd(lines) ==
  IF Len(lines) > 0 /\ At(lines, 0) = Dashes
  THEN LET end == IndexOf(lines, Dashes, 1)
       IN  IF end >= 0 THEN end + 1 ELSE 0
  ELSE 0

\* ------------------------------------------------------------------------
\* ensureTargetDeck, src/main.ts:418-435
\* ------------------------------------------------------------------------

\* lines.some(l => l.includes(marker))
HasMarker(lines) == \E k \in 1..Len(lines) : Includes(lines[k], Marker)

\* the insertion index before the blank line is considered
DeckIndex(lines) ==
  LET idx == findYamlEnd(lines)
      fh  == FirstIndex({k \in 0..(Len(lines) - 1) :
                           StartsWith(Trim(At(lines, k)), <<"#">>)})
  IN  IF idx = 0 /\ fh >= 0 THEN fh ELSE idx

\* targetDeckTemplate.replace(/filename/g, file.basename)
RenderTemplate(template, basename) == ReplaceAll(template, FilenameToken, basename)

\* ensureTargetDeck with the return of line 420 left out
ensureTargetDeckMarkerUnseen(lines, basename, template) ==
  LET idx0 == DeckIndex(lines)
      tpl  == RenderTemplate(template, basename)
      pad  == idx0 > 0 /\ At(lines, idx0 - 1) = Dashes
      l1   == IF pad THEN Splice(lines, idx0, 0, << <<>> >>) ELSE lines
      idx  == IF pad THEN idx0 + 1 ELSE idx0
  IN  [lines |-> Splice(l1, idx, 0, <<Marker, tpl, <<>> >>), changed |-> TRUE]

ensureTargetDeck(lines, basename, template) ==
  IF HasMarker(lines) THEN [lines |-> lines, changed |-> FALSE]
  ELSE LET idx0 == DeckIndex(lines)
           tpl  == RenderTemplate(template, basename)
           pad  == idx0 > 0 /\ At(lines, idx0 - 1) = Dashes
           l1   == IF pad THEN Splice(lines, idx0, 0, << <<>> >>) ELSE lines
           idx  == IF pad THEN idx0 + 1 ELSE idx0
       IN  [lines |-> Splice(l1, idx, 0, <<Marker, tpl, <<>> >>), changed |-> TRUE]

\* ------------------------------------------------------------------------
\* rewriteHeadingsAndCollectLists, src/main.ts:438-470
\* ------------------------------------------------------------------------

\* "#".repeat(headingLevel) + " "
HeadingPrefix(level) == Repeat("#", level) \o <<" ">>

\* CleanHeading with the trim of line 449 left out
CleanHeadingUntrimmed(rawHeading) == DeleteChars(rawHeading, HeadingJunk)

\* CleanHeading with < and > left out of the class of line 449
CleanHeadingKeepsAngles(rawHeading) == Trim(DeleteChars(rawHeading, {Backtick}))

\* rawHeading.replace(<runs of HeadingJunk>, "").trim()
CleanHeading(rawHeading) == Trim(DeleteChars(rawHeading, HeadingJunk))

\* Backlink with the two names of line 455 exchanged
BacklinkExchanged(noteName, cleanHeading) ==
  <<"[", "[">> \o cleanHeading \o <<"#">> \o noteName \o <<"]", "]">>

\* the template literal [[${noteName}#${cleanHeading}]]
Backlink(noteName, cleanHeading) ==
  <<"[", "[">> \o noteName \o <<"#">> \o cleanHeading \o <<"]", "]">>

\* /^\[\[.*?#.*?\]\]$/.test(t)
IsLinkShaped(t) ==
  /\ Len(t) >= 5
  /\ t[1] = "[" /\ t[2] = "["
  /\ t[Len(t) - 1] = "]" /\ t[Len(t)] = "]"
  /\ \E k \in 3..(Len(t) - 2) : t[k] = "#"
  /\ \A k \in 3..(Len(t) - 2) : t[k] \notin LineTerminators

\* while (j < lines.length && lines[j].trim() === "") j++
RECURSIVE SkipBlank(_, _)
SkipBlank(lines, j) ==
  IF j < Len(lines) /\ Trim(At(lines, j)) = <<>> THEN SkipBlank(lines, j + 1) ELSE j

\* HeadingLoop with the line of a heading looked at again after a line was
\* added under it
RECURSIVE HeadingLoopLooksAgain(_, _, _, _, _, _)
HeadingLoopLooksAgain(lines, i, changed, hPrefix, noteName, visited) ==
  IF i >= Len(lines) THEN [lines |-> lines, changed |-> changed, visited |-> visited]
  ELSE IF ~StartsWith(At(lines, i), hPrefix)
       THEN HeadingLoopLooksAgain(lines, i + 1, changed, hPrefix, noteName, visited)
  ELSE LET rawHeading   == Slice(At(lines, i), Len(hPrefix))
           cleanHeading == CleanHeading(rawHeading)
           l1 == IF rawHeading # cleanHeading
                 THEN [lines EXCEPT ![i + 1] = hPrefix \o cleanHeading]
                 ELSE lines
           c1 == changed \/ rawHeading # cleanHeading
           backlink == Backlink(noteName, cleanHeading)
           j  == SkipBlank(l1, i + 1)
           v1 == Append(visited, i)
       IN  IF j >= Len(l1)
           THEN HeadingLoopLooksAgain(Append(l1, backlink), i, TRUE, hPrefix, noteName, v1)
           ELSE IF ~IsLinkShaped(Trim(At(l1, j)))
           THEN HeadingLoopLooksAgain(Splice(l1, j, 0, <<backlink>>), i, TRUE, hPrefix, noteName, v1)
           ELSE IF Trim(At(l1, j)) # backlink
           THEN HeadingLoopLooksAgain([l1 EXCEPT ![j + 1] = backlink], i + 1, TRUE, hPrefix, noteName, v1)
           ELSE HeadingLoopLooksAgain(l1, i + 1, c1, hPrefix, noteName, v1)

\* the for loop from index i on; visited are the values of i at which the
\* body went past the continue of line 446
RECURSIVE HeadingLoop(_, _, _, _, _, _)
HeadingLoop(lines, i, changed, hPrefix, noteName, visited) ==
  IF i >= Len(lines) THEN [lines |-> lines, changed |-> changed, visited |-> visited]
  ELSE IF ~StartsWith(At(lines, i), hPrefix)
       THEN HeadingLoop(lines, i + 1, changed, hPrefix, noteName, visited)
  ELSE LET rawHeading   == Slice(At(lines, i), Len(hPrefix))
           cleanHeading == CleanHeading(rawHeading)
           l1 == IF rawHeading # cleanHeading
                 THEN [lines EXCEPT ![i + 1] = hPrefix \o cleanHeading]
                 ELSE lines
           c1 == changed \/ rawHeading # cleanHeading
           backlink == Backlink(noteName, cleanHeading)
           j  == SkipBlank(l1, i + 1)
           v1 == Append(visited, i)
       IN  IF j >= Len(l1)
           THEN HeadingLoop(Append(l1, backlink), i + 1, TRUE, hPrefix, noteName, v1)
           ELSE IF ~IsLinkShaped(Trim(At(l1, j)))
           THEN HeadingLoop(Splice(l1, j, 0, <<backlink>>), i + 1, TRUE, hPrefix, noteName, v1)
           ELSE IF Trim(At(l1, j)) # backlink
           THEN HeadingLoop([l1 EXCEPT ![j + 1] = backlink], i + 1, TRUE, hPrefix, noteName, v1)
           ELSE HeadingLoop(l1, i + 1, c1, hPrefix, noteName, v1)

rewriteHeadingsAndCollectLists(lines, basename, headingLevel) ==
  HeadingLoop(lines, findYamlEnd(lines), FALSE, HeadingPrefix(headingLevel), basename, <<>>)

\* ------------------------------------------------------------------------
\* tidyLists, src/main.ts:472-517
\* ------------------------------------------------------------------------

\* the length of the longest prefix of l made of characters of S
LeadingCount(l, S) ==
  LET stop == {k \in 1..Len(l) : l[k] \notin S}
  IN  IF stop = {} THEN Len(l) ELSE Min(stop) - 1

\* what follows the list marker of src/main.ts:475 (leading white space, then
\* one of - + * or digits and a dot) in l; ok is false when l has none
AfterListMarker(l) ==
  LET r  == Slice(l, LeadingCount(l, WhiteSpace))
      nd == LeadingCount(r, Digits)
  IN  IF Len(r) > 0 /\ r[1] \in {"-", "+", "*"} THEN [ok |-> TRUE, rest |-> Slice(r, 1)]
      ELSE IF nd > 0 /\ Len(r) > nd /\ r[nd + 1] = "." THEN [ok |-> TRUE, rest |-> Slice(r, nd + 1)]
      ELSE [ok |-> FALSE, rest |-> <<>>]

\* isList, src/main.ts:475: the marker, then anything
isList(l) == AfterListMarker(l).ok

\* isEmptyItem, src/main.ts:476: the marker, then white space to the end
isEmptyItem(l) ==
  LET m == AfterListMarker(l)
  IN  m.ok /\ \A k \in 1..Len(m.rest) : m.rest[k] \in WhiteSpace

\* /^\s*$/.test(l)
isBlankLine(l) == \A k \in 1..Len(l) : l[k] \in WhiteSpace

\* /^\s*<!--.*-->/.test(l)
isHtmlCmt(l) ==
  LET r == Slice(l, LeadingCount(l, WhiteSpace))
  IN  /\ StartsWith(r, <<"<", "!", "-", "-">>)
      /\ \E k \in 5..(Len(r) - 2) :
           /\ SubSeq(r, k, k + 2) = <<"-", "-", ">">>
           /\ \A m \in 5..(k - 1) : r[m] \notin LineTerminators

\* while (end + 1 < lines.length && isList(lines[end + 1])) end++
RECURSIVE BlockEnd(_, _)
BlockEnd(lines, end) ==
  IF end + 1 < Len(lines) /\ isList(At(lines, end + 1)) THEN BlockEnd(lines, end + 1) ELSE end

\* RemoveEmptyItems with j > i for the j >= i of line 489
RECURSIVE RemoveEmptyItemsButFirst(_, _, _, _, _)
RemoveEmptyItemsButFirst(lines, j, i, end, changed) ==
  IF j <= i THEN [lines |-> lines, end |-> end, changed |-> changed]
  ELSE IF isEmptyItem(At(lines, j))
       THEN RemoveEmptyItemsButFirst(Splice(lines, j, 1, <<>>), j - 1, i, end - 1, TRUE)
  ELSE RemoveEmptyItemsButFirst(lines, j - 1, i, end, changed)

\* for (let j = end; j >= i; j--) if (isEmptyItem(lines[j])) { splice; end-- }
RECURSIVE RemoveEmptyItems(_, _, _, _, _)
RemoveEmptyItems(lines, j, i, end, changed) ==
  IF j < i THEN [lines |-> lines, end |-> end, changed |-> changed]
  ELSE IF isEmptyItem(At(lines, j))
       THEN RemoveEmptyItems(Splice(lines, j, 1, <<>>), j - 1, i, end - 1, TRUE)
  ELSE RemoveEmptyItems(lines, j - 1, i, end, changed)

\* NeedSpace with the test of line 501 left out
NeedSpaceBeforeBlank(lines, end) ==
  /\ end + 1 < Len(lines)
  /\ ~isList(At(lines, end + 1))
  /\ ~isHtmlCmt(At(lines, end + 1))

\* NeedSpace with the test of line 503 left out
NeedSpaceBeforeComment(lines, end) ==
  /\ end + 1 < Len(lines)
  /\ ~isBlankLine(At(lines, end + 1))
  /\ ~isList(At(lines, end + 1))

\* needSpace of the line after the block, false when there is none
NeedSpace(lines, end) ==
  /\ end + 1 < Len(lines)
  /\ ~isBlankLine(At(lines, end + 1))
  /\ ~isList(At(lines, end + 1))
  /\ ~isHtmlCmt(At(lines, end + 1))

\* the for loop from index i on
RECURSIVE TidyLoop(_, _, _)
TidyLoop(lines, i, changed) ==
  IF i >= Len(lines) THEN [lines |-> lines, changed |-> changed]
  ELSE IF ~isList(At(lines, i)) THEN TidyLoop(lines, i + 1, changed)
  ELSE LET r    == RemoveEmptyItems(lines, BlockEnd(lines, i), i, BlockEnd(lines, i), changed)
           need == NeedSpace(r.lines, r.end)
           l2   == IF need THEN Splice(r.lines, r.end + 1, 0, <<SpaceLine>>) ELSE r.lines
       IN  TidyLoop(l2, r.end + 1, r.changed \/ need)

\* tidyLists with the start of line 480 left at 0
tidyListsFromTop(lines) == TidyLoop(lines, 0, FALSE)

tidyLists(lines) == TidyLoop(lines, findYamlEnd(lines), FALSE)

\* ------------------------------------------------------------------------
\* globToRegExp, src/main.ts:333-338, and RegExp.prototype.test
\* ------------------------------------------------------------------------

\* The section sign U+00A7 of the placeholder, written by its code point.
Section == "U+00A7"

\* the characters of the class the first replace escapes, src/main.ts:334
EscapedChars == {".", "+", "^", "$", "{", "}", "(", ")", "|", "[", "]", "\\"}

\* pattern.replace(<one character of EscapedChars>, "\\$&")
RECURSIVE EscapeFrom(_, _)
EscapeFrom(s, i) ==
  IF i > Len(s) THEN <<>>
  ELSE (IF s[i] \in EscapedChars THEN <<"\\", s[i]>> ELSE <<s[i]>>) \o EscapeFrom(s, i + 1)

\* globToRegExp with the single star compiled like the double one
globToRegExpStarCrossesSlash(pattern) ==
  LET escaped == EscapeFrom(pattern, 1)
      doubled == ReplaceAll(escaped, <<"*", "*">>, <<".", "*">>)
  IN  <<"^">> \o ReplaceAll(doubled, <<"*">>, <<".", "*">>) \o <<"$">>

\* the source of the RegExp globToRegExp builds
globToRegExp(pattern) ==
  LET escaped          == EscapeFrom(pattern, 1)
      withPlaceholders == ReplaceAll(escaped, <<"*", "*">>, <<Section, Section>>)
      single           == ReplaceAll(withPlaceholders, <<"*">>, <<"[", "^", "/", "]", "*">>)
  IN  <<"^">> \o ReplaceAll(single, <<Section, Section>>, <<".", "*">>) \o <<"$">>

\* One term of a regular expression: what one character must be (any but a
\* line terminator, any but a slash, or the character c) and how often
\* (once, optionally, any number of times); lazy says a ? already made the
\* quantifier lazy, so that one more ? has nothing to repeat.
Term(kind, c, q, lazy) == [kind |-> kind, c |-> c, q |-> q, lazy |-> lazy]

\* new RegExp(src) for the sources globToRegExp can build: the terms between
\* ^ and $, or ok = FALSE where the constructor throws a SyntaxError
\* (a ? with nothing to repeat).
RECURSIVE RegExpTerms(_, _, _)
RegExpTerms(src, i, terms) ==
  IF i > Len(src) - 1 THEN [ok |-> TRUE, terms |-> terms]
  ELSE IF src[i] = "\\"
       THEN RegExpTerms(src, i + 2, Append(terms, Term("char", src[i + 1], "one", FALSE)))
  ELSE IF i + 4 <= Len(src) - 1 /\ SubSeq(src, i, i + 4) = <<"[", "^", "/", "]", "*">>
       THEN RegExpTerms(src, i + 5, Append(terms, Term("notslash", "", "star", FALSE)))
  ELSE IF i + 1 <= Len(src) - 1 /\ SubSeq(src, i, i + 1) = <<".", "*">>
       THEN RegExpTerms(src, i + 2, Append(terms, Term("dot", "", "star", FALSE)))
  ELSE IF src[i] = "?"
       THEN IF Len(terms) = 0 \/ terms[Len(terms)].lazy
            THEN [ok |-> FALSE, terms |-> <<>>]
            ELSE IF terms[Len(terms)].q = "one"
            THEN RegExpTerms(src, i + 1, [terms EXCEPT ![Len(terms)].q = "opt"])
            ELSE RegExpTerms(src, i + 1, [terms EXCEPT ![Len(terms)].lazy = TRUE])
  ELSE RegExpTerms(src, i + 1, Append(terms, Term("char", src[i], "one", FALSE)))

\* whether new RegExp(src) returns rather than throws
RegExpValid(src) == RegExpTerms(src, 2, <<>>).ok

\* whether character ch satisfies term t
TermAccepts(t, ch) ==
  CASE t.kind = "char"     -> ch = t.c
    [] t.kind = "notslash" -> ch # "/"
    [] t.kind = "dot"      -> ch \notin LineTerminators

\* whether terms k.. match the path from position p to its end
RECURSIVE TermsMatch(_, _, _, _)
TermsMatch(terms, k, path, p) ==
  IF k > Len(terms) THEN p > Len(path)
  ELSE LET t    == terms[k]
           here == p <= Len(path) /\ TermAccepts(t, path[p])
       IN  CASE t.q = "one"  -> here /\ TermsMatch(terms, k + 1, path, p + 1)
             [] t.q = "opt"  -> \/ TermsMatch(terms, k + 1, path, p)
                                \/ here /\ TermsMatch(terms, k + 1, path, p + 1)
             [] t.q = "star" -> \/ TermsMatch(terms, k + 1, path, p)
                                \/ here /\ TermsMatch(terms, k, path, p + 1)

\* r.test(path) for the RegExp of source src (anchored by its ^ and $)
RegExpTest(src, path) == TermsMatch(RegExpTerms(src, 2, <<>>).terms, 1, path, 1)

\* toGlob with the test of the last character left out
toGlobEveryPattern(p) == p \o <<"*", "*">>

\* toGlob, src/main.ts:535
toGlob(p) == IF EndsWith(p, <<"/">>) THEN p \o <<"*", "*">> ELSE p

\* paths.map(p => globToRegExp(toGlob(p)))
CompileList(paths) == [k \in 1..Len(paths) |-> globToRegExp(toGlob(paths[k]))]

\* whether the map above returns rather than throws
CompileOk(paths) == \A k \in 1..Len(paths) : RegExpValid(globToRegExp(toGlob(paths[k])))

\* patterns.some(r => r.test(path))
SomeMatch(patterns, path) == \E k \in 1..Len(patterns) : RegExpTest(patterns[k], path)

\* ------------------------------------------------------------------------
\* The plugin's state
\* ------------------------------------------------------------------------

VARIABLES
  settings,         \* this.settings, src/main.ts:364
  includePatterns,  \* this.includePatterns, the sources of its RegExps
  excludePatterns,  \* this.excludePatterns
  saved,            \* what saveData last wrote
  file,             \* the active file: its path and basename
  vault,            \* the text of that file in the vault
  run,              \* the activation of processFile
  handlers,         \* the settings handlers waiting in saveSettings
  runs,             \* how many times the command was invoked
  edits             \* how many settings changes were made

vars == <<settings, includePatterns, excludePatterns, saved, file, vault, run, handlers, runs, edits>>

\* '[[anki<U+80CC><U+8BF5>]]::[[filename]]', src/main.ts:354
DefaultTemplate == <<"[", "[", "a", "n", "k", "i", "U+80CC", "U+8BF5", "]", "]", ":", ":", "[", "[", "f", "i", "l", "e", "n", "a", "m", "e", "]", "]">>

\* src/main.ts:352-361
DEFAULT_SETTINGS ==
  [ headingLevel       |-> 4,
    targetDeckTemplate |-> DefaultTemplate,
    enableTargetDeck   |-> TRUE,
    enableHeadingOps   |-> TRUE,
    enableListTidy     |-> TRUE,
    runScope           |-> "all",
    includePaths       |-> <<>>,
    excludePaths       |-> <<>> ]

NoCalls == [deck |-> FALSE, heading |-> FALSE, list |-> FALSE]

\* processFile not running.  Besides its position, a run keeps the values
\* its locals took: inScope (the result of isInScope), split (lines as
\* split from the text read), afterDeck and afterHeading (lines after the
\* first and the second component), lines and changed (their final values),
\* called and ret (which components were called and what each returned),
\* effects (the calls it made to the host: read, modify, notice), and config
\* (the value of this.settings when isInScope read it, line 386).
IdleRun ==
  [ pc |-> "idle", inScope |-> FALSE, config |-> DEFAULT_SETTINGS,
    split |-> <<>>, afterDeck |-> <<>>,
    afterHeading |-> <<>>, lines |-> <<>>, changed |-> FALSE,
    called |-> NoCalls, ret |-> NoCalls, effects |-> <<>> ]

\* ------------------------------------------------------------------------
\* Bounds and inputs
\* ------------------------------------------------------------------------

\* how many times the command is invoked
MaxRuns == 2

\* how many settings changes are made
MaxEdits == 2

\* how many lines a document of an enumerated family has
MaxLen == 3

\* how many patterns a path list has
MaxPatterns == 2

\* the sequences over V of length at most n
SeqsUpTo(V, n) == {<<>>} \cup UNION {[1..k -> V] : k \in 1..n}

\* the text of a document given by its lines
TextOf(lines) == Join(lines, <<"\n">>)

\* 'Notes/Card1.md'
FileCard ==
  [ path |-> <<"N", "o", "t", "e", "s", "/", "C", "a", "r", "d", "1", ".", "m", "d">>,
    basename |-> <<"C", "a", "r", "d", "1">> ]

\* 'Notes/x.md'
FileNotes ==
  [ path |-> <<"N", "o", "t", "e", "s", "/", "x", ".", "m", "d">>, basename |-> <<"x">> ]

\* 'Archive/x.md'
FileArchive ==
  [ path |-> <<"A", "r", "c", "h", "i", "v", "e", "/", "x", ".", "m", "d">>,
    basename |-> <<"x">> ]

\* 'Archive/old/x.md'
FileArchiveDeep ==
  [ path |-> <<"A", "r", "c", "h", "i", "v", "e", "/", "o", "l", "d", "/", "x", ".", "m", "d">>,
    basename |-> <<"x">> ]

\* 'x.md'
FileTop == [path |-> <<"x", ".", "m", "d">>, basename |-> <<"x">>]

\* 'A$&.md'
FileDollarAmp == [path |-> <<"A", "$", "&", ".", "m", "d">>, basename |-> <<"A", "$", "&">>]

\* '$$.md'
FileDollars == [path |-> <<"$", "$", ".", "m", "d">>, basename |-> <<"$", "$">>]

\* ''
LnBlank == <<>>

\* '#### h'
LnHeading == <<"#", "#", "#", "#", " ", "h">>

\* '#### ' then a grave accent, 'h> '
LnHeadingJunk == <<"#", "#", "#", "#", " ", Backtick, "h", ">", " ">>

\* '## h'
LnHeadingTwo == <<"#", "#", " ", "h">>

\* '# t'
LnTitle == <<"#", " ", "t">>

\* '###### h'
LnHeadingSix == <<"#", "#", "#", "#", "#", "#", " ", "h">>

\* the heading of the spec's example: '#### Question with ' then 'code' between
\* grave accents, then ' and <tag>'
LnQuestion == <<"#", "#", "#", "#", " ", "Q", "u", "e", "s", "t", "i", "o", "n", " ", "w", "i", "t", "h", " ", Backtick, "c", "o", "d", "e", Backtick, " ", "a", "n", "d", " ", "<", "t", "a", "g", ">">>

\* '#### Question with code and tag'
LnQuestionClean == <<"#", "#", "#", "#", " ", "Q", "u", "e", "s", "t", "i", "o", "n", " ", "w", "i", "t", "h", " ", "c", "o", "d", "e", " ", "a", "n", "d", " ", "t", "a", "g">>

\* '#### Question with  and'
LnQuestionClaimed == <<"#", "#", "#", "#", " ", "Q", "u", "e", "s", "t", "i", "o", "n", " ", "w", "i", "t", "h", " ", " ", "a", "n", "d">>

\* '[[Card1#h]]'
LnBacklink == <<"[", "[", "C", "a", "r", "d", "1", "#", "h", "]", "]">>

\* '[[x#y]]'
LnOtherLink == <<"[", "[", "x", "#", "y", "]", "]">>

\* '[[x#TARGET DECK]]'
LnMarkerLink == <<"[", "[", "x", "#", "T", "A", "R", "G", "E", "T", " ", "D", "E", "C", "K", "]", "]">>

\* '- a'
LnItem == <<"-", " ", "a">>

\* '- b'
LnItemB == <<"-", " ", "b">>

\* '- '
LnEmptyItem == <<"-", " ">>

\* '1.'
LnNumberedEmpty == <<"1", ".">>

\* '**b**'
LnBold == <<"*", "*", "b", "*", "*">>

\* 'text'
LnText == <<"t", "e", "x", "t">>

\* 'Some text'
LnSomeText == <<"S", "o", "m", "e", " ", "t", "e", "x", "t">>

\* '<!-- c -->'
LnComment == <<"<", "!", "-", "-", " ", "c", " ", "-", "-", ">">>

\* '<!-- c'
LnOpenComment == <<"<", "!", "-", "-", " ", "c">>

\* '  - a'
LnIndentedItem == <<" ", " ", "-", " ", "a">>

\* a tab, then '- '
LnTabEmptyItem == <<"\t", "-", " ">>

\* '1. b'
LnNumberedItem == <<"1", ".", " ", "b">>

\* ' [[Card1#h]] '
LnBacklinkSpaced == <<" ", "[", "[", "C", "a", "r", "d", "1", "#", "h", "]", "]", " ">>

\* 'title: x'
LnYamlField == <<"t", "i", "t", "l", "e", ":", " ", "x">>

\* '[[Deck]]::[[filename]]'
TplDeck == <<"[", "[", "D", "e", "c", "k", "]", "]", ":", ":", "[", "[", "f", "i", "l", "e", "n", "a", "m", "e", "]", "]">>

\* 'filename/filename'
TplTwice == <<"f", "i", "l", "e", "n", "a", "m", "e", "/", "f", "i", "l", "e", "n", "a", "m", "e">>

\* 'Deck'
TplPlain == <<"D", "e", "c", "k">>

\* 'Archive/'
PatArchive == <<"A", "r", "c", "h", "i", "v", "e", "/">>

\* 'Notes/*'
PatNotesStar == <<"N", "o", "t", "e", "s", "/", "*">>

\* 'x.md'
PatTop == <<"x", ".", "m", "d">>

\* the lines of the documents about headings, lists, the deck block, and
\* about all three at once
HeadingLines == {LnHeading, LnHeadingJunk, LnBlank, LnBacklink, LnOtherLink, LnText, Dashes}

ListLines == {LnItem, LnEmptyItem, LnText, LnBlank, LnComment, LnOpenComment, Dashes}

DeckLines == {Dashes, LnYamlField, LnTitle, LnText, Marker, LnHeading}

MixedLines == {LnHeading, LnMarkerLink, LnEmptyItem, LnItem, LnText, Dashes}

\* documents the spec and the claims name
NamedDocs ==
  { <<LnItem, LnEmptyItem, LnItemB>>,
    <<LnItem, LnItemB, LnSomeText>>,
    <<LnQuestion>>,
    <<Dashes, LnYamlField, Dashes, LnQuestion, LnItem, LnEmptyItem, LnText>>,
    <<LnEmptyItem, LnNumberedEmpty, LnText>>,
    <<LnBold, LnText, Dashes>>,
    <<LnHeading, LnBlank, LnBlank, LnOtherLink, LnHeadingJunk>>,
    <<LnIndentedItem, LnTabEmptyItem, LnNumberedItem, LnText>>,
    <<LnHeading, LnBlank, LnBacklinkSpaced, LnTabEmptyItem, LnComment>>,
    <<LnNumberedItem, LnNumberedEmpty, LnOpenComment>>,
    <<Dashes, LnHeadingJunk, LnEmptyItem, Dashes, LnHeadingJunk, LnEmptyItem, LnText>>,
    <<Dashes, LnEmptyItem, Dashes, LnEmptyItem, LnText>>,
    <<Marker, LnBlank, LnHeading, LnBacklink>> }

\* documents of the runs whose subject is not the document
FewDocs == { <<LnHeading, LnItem, LnText>> }

\* the eight combinations of the three switches
FlagChoices ==
  { [DEFAULT_SETTINGS EXCEPT !.enableTargetDeck = d, !.enableHeadingOps = h, !.enableListTidy = l] :
      d \in BOOLEAN, h \in BOOLEAN, l \in BOOLEAN }

\* the levels the settings tab's dropdown offers, src/main.ts:571
AllLevels == 1..6

\* the levels chosen in the dropdown
LevelChoices == {2, 4}

\* what is typed into the template field
TemplateInputs == {TplDeck, <<" ">>}

\* what is typed into a path text area: 'Archive/', ' Notes/* ' and a blank
\* line and 'x.md', and nothing
AreaInputs ==
  { PatArchive,
    <<" ">> \o PatNotesStar \o <<" ", "\n", "\n">> \o PatTop,
    <<>> }

\* the file of a note at a path: its basename is the name without the folders
\* and the extension '.md'
MdFile(path) ==
  LET slashes == {k \in 1..Len(path) : path[k] = "/"}
      from    == IF slashes = {} THEN 1 ELSE Max(slashes) + 1
  IN  [path |-> path, basename |-> SubSeq(path, from, Len(path) - 3)]

\* 'a/**'
GlobDirAll == <<"a", "/", "*", "*">>

\* 'a/*'
GlobDirOne == <<"a", "/", "*">>

\* '*.md'
GlobAnyMd == <<"*", ".", "m", "d">>

\* '**/*.md'
GlobDeepMd == <<"*", "*", "/", "*", ".", "m", "d">>

\* 'a*'
GlobPrefix == <<"a", "*">>

\* '**'
GlobAll == <<"*", "*">>

\* 'a/'
GlobFolder == <<"a", "/">>

\* 'a?/'
GlobFolderQuery == <<"a", "?", "/">>

\* 'a.b.md'
GlobDots == <<"a", ".", "b", ".", "m", "d">>

\* 'a+b.md'
GlobPlus == <<"a", "+", "b", ".", "m", "d">>

\* '(a).md'
GlobParens == <<"(", "a", ")", ".", "m", "d">>

\* '[a].md'
GlobBrackets == <<"[", "a", "]", ".", "m", "d">>

\* '$a.md'
GlobDollar == <<"$", "a", ".", "m", "d">>

\* 'a?.md'
GlobQuery == <<"a", "?", ".", "m", "d">>

\* the empty pattern, which loaded settings may hold
GlobEmpty == <<>>

\* two section signs, the placeholder of src/main.ts:335
GlobSections == <<Section, Section>>

\* 'a/x.md'
PathInDir == <<"a", "/", "x", ".", "m", "d">>

\* 'a/b/x.md'
PathDeep == <<"a", "/", "b", "/", "x", ".", "m", "d">>

\* 'x.md'
PathTop == <<"x", ".", "m", "d">>

\* 'ab/x.md'
PathOtherDir == <<"a", "b", "/", "x", ".", "m", "d">>

\* 'b/a/x.md'
PathNested == <<"b", "/", "a", "/", "x", ".", "m", "d">>

\* 'a.b.md'
PathDots == <<"a", ".", "b", ".", "m", "d">>

\* 'axb.md'
PathNoDots == <<"a", "x", "b", ".", "m", "d">>

\* 'a+b.md'
PathPlus == <<"a", "+", "b", ".", "m", "d">>

\* 'aab.md'
PathRepeated == <<"a", "a", "b", ".", "m", "d">>

\* '(a).md'
PathParens == <<"(", "a", ")", ".", "m", "d">>

\* 'a.md'
PathPlain == <<"a", ".", "m", "d">>

\* '[a].md'
PathBrackets == <<"[", "a", "]", ".", "m", "d">>

\* '$a.md'
PathDollar == <<"$", "a", ".", "m", "d">>

\* 'a?.md'
PathQuery == <<"a", "?", ".", "m", "d">>

\* '.md'
PathBare == <<".", "m", "d">>

\* 'a?/x.md'
PathQueryDir == <<"a", "?", "/", "x", ".", "m", "d">>

\* the patterns and the paths of the runs about matching
GlobPatterns ==
  { GlobDirAll, GlobDirOne, GlobAnyMd, GlobDeepMd, GlobPrefix,
    GlobAll, GlobFolder, GlobFolderQuery, GlobDots, GlobPlus,
    GlobParens, GlobBrackets, GlobDollar, GlobQuery,
    GlobEmpty, GlobSections }

GlobPaths ==
  { PathInDir, PathDeep, PathTop, PathOtherDir, PathNested,
    PathDots, PathNoDots, PathPlus, PathRepeated, PathParens,
    PathPlain, PathBrackets, PathDollar, PathQuery, PathBare,
    PathQueryDir }

\* the path lists of loaded settings
PathLists == SeqsUpTo({PatArchive, PatNotesStar, PatTop}, MaxPatterns)

\* the path lists stored before the settings tab is opened
StoredLists == {<<>>, <<PatArchive>>}


\* ------------------------------------------------------------------------
\* isInScope, src/main.ts:408-417
\* ------------------------------------------------------------------------

\* isInScope with the negation of line 414 left out
isInScopeNoNegation(path) ==
  IF settings.runScope = "include" THEN SomeMatch(includePatterns, path)
  ELSE IF settings.runScope = "exclude" THEN SomeMatch(excludePatterns, path)
  ELSE TRUE

isInScope(path) ==
  IF settings.runScope = "include" THEN SomeMatch(includePatterns, path)
  ELSE IF settings.runScope = "exclude" THEN ~SomeMatch(excludePatterns, path)
  ELSE TRUE

\* ------------------------------------------------------------------------
\* processFile, src/main.ts:385-406
\* ------------------------------------------------------------------------

\* line 395-397: the first component, called when its switch is on
DeckStage(lines) ==
  IF settings.enableTargetDeck
  THEN ensureTargetDeck(lines, file.basename, settings.targetDeckTemplate)
  ELSE [lines |-> lines, changed |-> FALSE]

\* line 398-400
HeadingStage(lines) ==
  IF settings.enableHeadingOps
  THEN rewriteHeadingsAndCollectLists(lines, file.basename, settings.headingLevel)
  ELSE [lines |-> lines, changed |-> FALSE]

\* ListStage with the switch of the heading component for its own
ListStageByHeadingSwitch(lines) ==
  IF settings.enableHeadingOps
  THEN tidyLists(lines)
  ELSE [lines |-> lines, changed |-> FALSE]

\* line 401-403
ListStage(lines) ==
  IF settings.enableListTidy
  THEN tidyLists(lines)
  ELSE [lines |-> lines, changed |-> FALSE]

\* the values the locals took, given what each component returned
Outcome(lines0, d, h, l) ==
  [ split |-> lines0, afterDeck |-> d.lines, afterHeading |-> h.lines,
    lines |-> l.lines,
    changed |-> l.changed \/ (h.changed \/ (d.changed \/ FALSE)),
    called |-> [deck |-> settings.enableTargetDeck,
                heading |-> settings.enableHeadingOps,
                list |-> settings.enableListTidy],
    ret |-> [deck |-> d.changed, heading |-> h.changed, list |-> l.changed] ]

AfterHeading(lines0, d, h) == Outcome(lines0, d, h, ListStage(h.lines))

AfterDeck(lines0, d) == AfterHeading(lines0, d, HeadingStage(d.lines))

AfterSplit(lines0) == AfterDeck(lines0, DeckStage(lines0))

\* lines 392-403: from the text read to the final lines and changed
Transform(raw) == AfterSplit(SplitLines(raw))

\* Continued with the test of line 405 left out: the file is always written
ContinuedAlwaysWrites(t) ==
  [ pc |-> "modify",
    inScope |-> run.inScope, config |-> run.config,
    split |-> t.split, afterDeck |-> t.afterDeck,
    afterHeading |-> t.afterHeading, lines |-> t.lines,
    changed |-> t.changed, called |-> t.called, ret |-> t.ret,
    effects |-> Append(run.effects, "modify") ]

\* the run once the text read has been transformed to t
Continued(t) ==
  [ pc |-> IF t.changed THEN "modify" ELSE "done",
    inScope |-> run.inScope, config |-> run.config,
    split |-> t.split, afterDeck |-> t.afterDeck,
    afterHeading |-> t.afterHeading, lines |-> t.lines,
    changed |-> t.changed, called |-> t.called, ret |-> t.ret,
    effects |-> IF t.changed THEN Append(run.effects, "modify") ELSE run.effects ]

\* RunCommand with the return of line 388 left out: the notice, then the read
RunCommandNoReturn ==
  /\ run.pc \in {"idle", "done"}
  /\ runs < MaxRuns
  /\ runs' = runs + 1
  /\ run' = IF isInScope(file.path)
            THEN [IdleRun EXCEPT !.pc = "read", !.inScope = TRUE, !.config = settings, !.effects = <<"read">>]
            ELSE [IdleRun EXCEPT !.pc = "read", !.inScope = FALSE, !.config = settings, !.effects = <<"notice", "read">>]
  /\ UNCHANGED <<settings, includePatterns, excludePatterns, saved, file, vault, handlers, edits>>

\* The command callback (lines 374-377) and processFile up to its first
\* await: the scope check, then the notice or the call of vault.read.
RunCommand ==
  /\ run.pc \in {"idle", "done"}
  /\ runs < MaxRuns
  /\ runs' = runs + 1
  /\ run' = IF isInScope(file.path)
            THEN [IdleRun EXCEPT !.pc = "read", !.inScope = TRUE, !.config = settings, !.effects = <<"read">>]
            ELSE [IdleRun EXCEPT !.pc = "done", !.inScope = FALSE, !.config = settings, !.effects = <<"notice">>]
  /\ UNCHANGED <<settings, includePatterns, excludePatterns, saved, file, vault, handlers, edits>>

\* vault.read resolves: lines 392-405 up to the call of vault.modify or the
\* return.
ReadDone ==
  /\ run.pc = "read"
  /\ run' = Continued(Transform(vault))
  /\ UNCHANGED <<settings, includePatterns, excludePatterns, saved, file, vault, handlers, runs, edits>>

\* vault.modify(file, lines.join("\n")) resolves, line 405
ModifyDone ==
  /\ run.pc = "modify"
  /\ vault' = Join(run.lines, <<"\n">>)
  /\ run' = [run EXCEPT !.pc = "done"]
  /\ UNCHANGED <<settings, includePatterns, excludePatterns, saved, file, handlers, runs, edits>>

\* ------------------------------------------------------------------------
\* Settings, src/main.ts:525-538 and the handlers of the settings tab
\* ------------------------------------------------------------------------

\* includeArea.value.split(/\n+/).map(s => s.trim()).filter(Boolean),
\* src/main.ts:691-693
ParsePaths(value) ==
  LET parts   == SplitRuns(value)
      trimmed == [k \in 1..Len(parts) |-> Trim(parts[k])]
  IN  FilterFrom(trimmed, {k \in 1..Len(trimmed) : trimmed[k] # <<>>}, 1)

\* updateScopePatterns, src/main.ts:534-538, as the values it leaves in
\* includePatterns and excludePatterns; a map whose globToRegExp throws
\* leaves its field, and the one after it, as they were.
ScopePatternsAfter(s, inc, exc) ==
  IF ~CompileOk(s.includePaths) THEN [inc |-> inc, exc |-> exc]
  ELSE IF ~CompileOk(s.excludePaths) THEN [inc |-> CompileList(s.includePaths), exc |-> exc]
  ELSE [inc |-> CompileList(s.includePaths), exc |-> CompileList(s.excludePaths)]

\* A handler's synchronous part: it assigns the setting and calls
\* saveSettings, which calls saveData(this.settings) and waits.  Handlers
\* started while others wait are waiting with them.
HandlerBegin(kind, newSettings) ==
  /\ edits < MaxEdits
  /\ edits' = edits + 1
  /\ settings' = newSettings
  /\ handlers' = Append(handlers, [kind |-> kind, payload |-> newSettings])
  /\ UNCHANGED <<includePatterns, excludePatterns, saved, file, vault, run, runs>>

\* src/main.ts:573-577
ChangeHeadingLevel ==
  \E v \in LevelChoices \ {settings.headingLevel} :
    HandlerBegin("headingLevel", [settings EXCEPT !.headingLevel = v])

\* src/main.ts:604-607
ToggleTargetDeck ==
  HandlerBegin("enableTargetDeck", [settings EXCEPT !.enableTargetDeck = ~@])

\* src/main.ts:622-625
ChangeTemplate ==
  \E value \in TemplateInputs :
    HandlerBegin("targetDeckTemplate",
                 [settings EXCEPT !.targetDeckTemplate =
                    IF Trim(value) = <<>> THEN DefaultTemplate ELSE Trim(value)])

\* src/main.ts:641-644
ToggleHeadingOps ==
  HandlerBegin("enableHeadingOps", [settings EXCEPT !.enableHeadingOps = ~@])

\* src/main.ts:652-655
ToggleListTidy ==
  HandlerBegin("enableListTidy", [settings EXCEPT !.enableListTidy = ~@])

\* src/main.ts:676-680
ChangeRunScope ==
  \E v \in {"all", "include", "exclude"} \ {settings.runScope} :
    HandlerBegin("runScope", [settings EXCEPT !.runScope = v])

\* src/main.ts:690-694
ChangeIncludeArea ==
  \E value \in AreaInputs :
    HandlerBegin("includePaths", [settings EXCEPT !.includePaths = ParsePaths(value)])

\* src/main.ts:705-709
ChangeExcludeArea ==
  \E value \in AreaInputs :
    HandlerBegin("excludePaths", [settings EXCEPT !.excludePaths = ParsePaths(value)])

\* saveSettings resolves for one of the waiting handlers, which runs to
\* its end: the two path handlers call updateScopePatterns (lines 695,
\* 710), the others only refresh the settings tab.
SaveDone ==
  \E k \in 1..Len(handlers) :
    /\ saved' = handlers[k].payload
    /\ LET after == ScopePatternsAfter(settings, includePatterns, excludePatterns)
       IN  IF handlers[k].kind \in {"includePaths", "excludePaths"}
           THEN includePatterns' = after.inc /\ excludePatterns' = after.exc
           ELSE UNCHANGED <<includePatterns, excludePatterns>>
    /\ handlers' = SubSeq(handlers, 1, k - 1) \o SubSeq(handlers, k + 1, Len(handlers))
    /\ UNCHANGED <<settings, file, vault, run, runs, edits>>

\* ------------------------------------------------------------------------
\* Specifications
\* ------------------------------------------------------------------------

\* onload, src/main.ts:368-381: loadSettings has merged the stored data over
\* the defaults and compiled the patterns, the command is registered.
Loaded(s, f, text) ==
  /\ CompileOk(s.includePaths) /\ CompileOk(s.excludePaths)
  /\ settings = s
  /\ includePatterns = CompileList(s.includePaths)
  /\ excludePatterns = CompileList(s.excludePaths)
  /\ saved = s
  /\ file = f
  /\ vault = text
  /\ run = IdleRun
  /\ handlers = <<>>
  /\ runs = 0
  /\ edits = 0

\* The plugin with its settings tab: any scope over a short stored list,
\* one document.
Init ==
  \E mode \in {"all", "include", "exclude"}, inc \in StoredLists, exc \in StoredLists,
     f \in {FileNotes, FileArchive} :
    Loaded([DEFAULT_SETTINGS EXCEPT !.runScope = mode, !.includePaths = inc, !.excludePaths = exc],
           f, TextOf(<<LnHeading, LnItem, LnText>>))

Next ==
  \/ RunCommand
  \/ ReadDone
  \/ ModifyDone
  \/ ChangeHeadingLevel
  \/ ToggleTargetDeck
  \/ ChangeTemplate
  \/ ToggleHeadingOps
  \/ ToggleListTidy
  \/ ChangeRunScope
  \/ ChangeIncludeArea
  \/ ChangeExcludeArea
  \/ SaveDone

Spec == Init /\ [][Next]_vars

\* The command run on a document with the settings left alone: documents
\* of every family under every combination of the switches, the heading
\* levels, the templates and basenames, and the scopes.
InitRun ==
  \/ \E s \in FlagChoices,
        doc \in SeqsUpTo(HeadingLines, MaxLen) \cup SeqsUpTo(ListLines, MaxLen)
                \cup SeqsUpTo(DeckLines, MaxLen) \cup SeqsUpTo(MixedLines, MaxLen)
                \cup NamedDocs :
       Loaded(s, FileCard, TextOf(doc))
  \/ \E level \in AllLevels, s \in FlagChoices,
        doc \in SeqsUpTo({LnTitle, LnHeadingTwo, LnHeading, LnHeadingSix}, MaxLen - 1) :
       Loaded([s EXCEPT !.headingLevel = level], FileCard, TextOf(doc))
  \/ \E tpl \in {DefaultTemplate, TplDeck, TplTwice, TplPlain},
        f \in {FileCard, FileDollarAmp, FileDollars},
        doc \in {<<LnText>>, <<LnText, LnHeading>>, <<Dashes, LnYamlField, Dashes, LnText>>} :
       Loaded([DEFAULT_SETTINGS EXCEPT !.targetDeckTemplate = tpl], f, TextOf(doc))
  \/ \E mode \in {"all", "include", "exclude"}, inc \in PathLists, exc \in PathLists,
        f \in {FileNotes, FileArchive, FileArchiveDeep, FileTop}, doc \in FewDocs :
       Loaded([DEFAULT_SETTINGS EXCEPT !.runScope = mode, !.includePaths = inc, !.excludePaths = exc],
              f, TextOf(doc))
  \/ \E mode \in {"include", "exclude"}, g \in GlobPatterns, path \in GlobPaths :
       Loaded([DEFAULT_SETTINGS EXCEPT !.runScope = mode,
                                       !.includePaths = IF mode = "include" THEN <<g>> ELSE <<>>,
                                       !.excludePaths = IF mode = "exclude" THEN <<g>> ELSE <<>>],
              MdFile(path), TextOf(<<LnText>>))

NextRun ==
  \/ RunCommand
  \/ ReadDone
  \/ ModifyDone

SpecRun == InitRun /\ [][NextRun]_vars

\* ------------------------------------------------------------------------
\* Properties
\* ------------------------------------------------------------------------

\* the run has passed the continuation of vault.read
Transformed == run.pc \in {"modify", "done"} /\ run.inScope

\* the elements of a sequence
Range(a) == {a[k] : k \in 1..Len(a)}

\* C1: the second run of the command on a file, which reads what the first
\* run left in the vault, ends with the lines it read and changed = false.
C1_SecondRunChangesNothing ==
  (runs = 2 /\ Transformed) => (run.lines = run.split /\ ~run.changed)

\* the path is matched by one of the compiled patterns
MatchedBy(patterns, path) == \E k \in 1..Len(patterns) : RegExpTest(patterns[k], path)

\* C2: the result of isInScope is true in mode all, in mode include true iff
\* some compiled include pattern matches the path (never with an empty
\* list), in mode exclude true iff no compiled exclude pattern matches it.
C2_ScopeTruthTable ==
  run.pc # "idle" =>
    /\ settings.runScope = "all" => run.inScope
    /\ settings.runScope = "include" =>
         /\ run.inScope <=> MatchedBy(includePatterns, file.path)
         /\ includePatterns = <<>> => ~run.inScope
    /\ settings.runScope = "exclude" =>
         (run.inScope <=> ~MatchedBy(excludePatterns, file.path))

\* a run in mode exclude that a compiled exclude pattern kept out
C2_Witness ==
  /\ run.pc = "done" /\ ~run.inScope
  /\ settings.runScope = "exclude"
  /\ settings.includePaths # <<>>
  /\ MatchedBy(excludePatterns, file.path)

\* C3: a run out of scope only shows the notice: it reads nothing, calls no
\* component, writes nothing and is over; a run in scope shows no notice.
C3_OutOfScopeSkips ==
  /\ (run.pc # "idle" /\ ~run.inScope) =>
       /\ run.effects = <<"notice">>
       /\ run.called = NoCalls
       /\ run.pc = "done"
  /\ (run.pc # "idle" /\ run.inScope) => "notice" \notin Range(run.effects)

\* a run out of scope that is over, on a file the components would change
C3_Witness ==
  /\ run.pc = "done" /\ ~run.inScope /\ run.effects = <<"notice">>
  /\ Transform(vault).changed

\* C4: in a run in scope the file is written iff a component that was
\* called returned true, and a component returns true only if the lines it
\* was given differ from the lines it left.
C4_WrittenIffChanged ==
  Transformed =>
    /\ "modify" \in Range(run.effects) <=>
         \/ run.called.deck /\ run.ret.deck
         \/ run.called.heading /\ run.ret.heading
         \/ run.called.list /\ run.ret.list
    /\ run.ret.deck => run.afterDeck # run.split
    /\ run.ret.heading => run.afterHeading # run.afterDeck
    /\ run.ret.list => run.lines # run.afterHeading
    /\ ~run.called.deck => ~run.ret.deck
    /\ ~run.called.heading => ~run.ret.heading
    /\ ~run.called.list => ~run.ret.list

\* a run over with all three components called, none returning true, and
\* nothing written
C4_Witness ==
  /\ run.pc = "done" /\ run.inScope
  /\ run.called = [deck |-> TRUE, heading |-> TRUE, list |-> TRUE]
  /\ run.ret = NoCalls
  /\ run.effects = <<"read">>
  /\ Len(run.split) > 1
\* C5: whenever a run calls isInScope, the compiled patterns are the
\* compilation of the path lists the settings hold at that moment.
C5_GateSeesCurrentPatterns ==
  [][runs' = runs + 1 =>
       /\ includePatterns = CompileList(settings.includePaths)
       /\ excludePatterns = CompileList(settings.excludePaths)]_vars

\* the template with every occurrence of the token replaced by the text as
\* it is written, from position i on
RECURSIVE SubstituteFrom(_, _, _, _)
SubstituteFrom(template, i, token, text) ==
  IF i > Len(template) THEN <<>>
  ELSE IF i + Len(token) - 1 <= Len(template) /\ SubSeq(template, i, i + Len(token) - 1) = token
       THEN text \o SubstituteFrom(template, i + Len(token), token, text)
  ELSE <<template[i]>> \o SubstituteFrom(template, i + 1, token, text)

\* C6: when no line read contains TARGET DECK, the lines the deck component
\* leaves hold exactly one marker line, and the line after it is the
\* template with each filename replaced by the basename as it is written.
C6_DeckBlockRendered ==
  (Transformed /\ run.called.deck
     /\ \A k \in 1..Len(run.split) : ~Includes(run.split[k], Marker)) =>
    LET out == run.afterDeck
    IN  /\ Cardinality({k \in 1..Len(out) : out[k] = Marker}) = 1
        /\ \A k \in 1..Len(out) :
             out[k] = Marker =>
               /\ k < Len(out)
               /\ out[k + 1] = SubstituteFrom(settings.targetDeckTemplate, 1,
                                              FilenameToken, file.basename)

\* C7: in the lines the heading component leaves, each line from the end of
\* the front matter on that starts with the prefix is followed, after blank
\* lines only, by a line that trimmed is [[basename#T]], T being the line's
\* text after the prefix.
C7_BacklinkAfterHeading ==
  (Transformed /\ run.called.heading) =>
    LET out == run.afterHeading
        p   == HeadingPrefix(settings.headingLevel)
    IN  \A i \in findYamlEnd(out)..(Len(out) - 1) :
          StartsWith(At(out, i), p) =>
            \E j \in (i + 1)..(Len(out) - 1) :
              /\ \A m \in (i + 1)..(j - 1) : Trim(At(out, m)) = <<>>
              /\ Trim(At(out, j)) =
                   <<"[", "[">> \o file.basename \o <<"#">>
                     \o Slice(At(out, i), Len(p)) \o <<"]", "]">>

\* a run in which the heading component replaced the link of another note
\* under a heading by the heading's own
C7_Witness ==
  /\ Transformed /\ run.called.heading /\ run.ret.heading
  /\ LnOtherLink \in Range(run.afterDeck)
  /\ LnOtherLink \notin Range(run.afterHeading)
  /\ LnBacklink \in Range(run.afterHeading)
  /\ \E i \in findYamlEnd(run.afterHeading)..(Len(run.afterHeading) - 1) :
       StartsWith(At(run.afterHeading, i), HeadingPrefix(settings.headingLevel))

\* the 1-based positions of the example heading where it is the first line
\* with the prefix after the front matter of the lines given to the heading
\* component at level 4: the line keeps its position
QuestionAt ==
  IF Transformed /\ run.called.heading /\ settings.headingLevel = 4
  THEN {k \in (findYamlEnd(run.afterDeck) + 1)..Len(run.afterDeck) :
          /\ run.afterDeck[k] = LnQuestion
          /\ \A m \in (findYamlEnd(run.afterDeck) + 1)..(k - 1) :
               ~StartsWith(run.afterDeck[m], HeadingPrefix(4))}
  ELSE {}

\* C8 as stated: the example heading becomes '#### Question with  and'
C8_ExampleAsStated == \A k \in QuestionAt : run.afterHeading[k] = LnQuestionClaimed

\* C8 as amended: the example heading becomes '#### Question with code and
\* tag', only the grave accents and the angle brackets being deleted
C8_ExampleCharactersDeleted == \A k \in QuestionAt : run.afterHeading[k] = LnQuestionClean

\* a run that rewrote the example heading
C8_Witness == QuestionAt # {} /\ run.ret.heading /\ run.pc = "done"

\* the list lines with content from 0-based index from on, in order
ContentItems(a, from) ==
  FilterFrom(a, {k \in (from + 1)..Len(a) : isList(a[k]) /\ ~isEmptyItem(a[k])}, 1)

\* C9: in the lines the list component leaves no line from the end of the
\* front matter on is an empty list item, and the list lines with content
\* are the ones it was given, in their order; '- a', '- ', '- b' becomes
\* '- a', '- b'.
C9_NoEmptyItemLeft ==
  (Transformed /\ run.called.list) =>
    LET in  == run.afterHeading
        out == run.lines
    IN  /\ \A k \in findYamlEnd(in)..(Len(out) - 1) : ~isEmptyItem(At(out, k))
        /\ \A k \in findYamlEnd(out)..(Len(out) - 1) : ~isEmptyItem(At(out, k))
        /\ ContentItems(out, findYamlEnd(in)) = ContentItems(in, findYamlEnd(in))
        /\ SubSeq(out, 1, findYamlEnd(in)) = SubSeq(in, 1, findYamlEnd(in))
        /\ in = <<LnItem, LnEmptyItem, LnItemB>> => out = <<LnItem, LnItemB>>

\* the run of the example
C9_Witness ==
  /\ run.pc = "done" /\ run.inScope /\ run.called.list /\ run.ret.list
  /\ run.afterHeading = <<LnItem, LnEmptyItem, LnItemB>>
  /\ run.lines = <<LnItem, LnItemB>>

\* a line that may follow a list line
MayFollowList(l) == isBlankLine(l) \/ isList(l) \/ isHtmlCmt(l)

\* C10: in the lines the list component leaves every list line from the end
\* of the front matter on, the last line apart, is followed by a blank
\* line, a list line or an HTML comment; where the line after a block it
\* was given is none of these, one line of a single space stands between
\* the block and that line, and no other line was added; '- a', '- b',
\* 'Some text' becomes '- a', '- b', ' ', 'Some text'.
C10_ListBlockSeparated ==
  (Transformed /\ run.called.list) =>
    LET in      == run.afterHeading
        out     == run.lines
        start   == findYamlEnd(in)
        empties == {k \in start..(Len(in) - 1) : isEmptyItem(At(in, k))}
        ends    == {e \in start..(Len(in) - 2) :
                      isList(At(in, e)) /\ ~MayFollowList(At(in, e + 1))}
        pos(e)  == e - Cardinality({k \in empties : k <= e})
                     + Cardinality({n \in ends : n < e})
    IN  /\ \A k \in start..(Len(out) - 2) :
             isList(At(out, k)) => MayFollowList(At(out, k + 1))
        /\ \A k \in findYamlEnd(out)..(Len(out) - 2) :
             isList(At(out, k)) => MayFollowList(At(out, k + 1))
        /\ Len(out) = Len(in) - Cardinality(empties) + Cardinality(ends)
        /\ \A e \in ends :
             /\ At(out, pos(e) + 1) = SpaceLine
             /\ At(out, pos(e) + 2) = At(in, e + 1)
        /\ in = <<LnItem, LnItemB, LnSomeText>> => out = <<LnItem, LnItemB, SpaceLine, LnSomeText>>

\* the run of the example
C10_Witness ==
  /\ run.pc = "done" /\ run.inScope /\ run.called.list /\ run.ret.list
  /\ run.afterHeading = <<LnItem, LnItemB, LnSomeText>>
  /\ run.lines = <<LnItem, LnItemB, SpaceLine, LnSomeText>>
\* the 1-based position of the line that closes the front matter of lines:
\* the first '---' after a '---' on the first line; 0 when there is none
ClosingAt(lines) ==
  IF Len(lines) > 1 /\ lines[1] = Dashes /\ \E k \in 2..Len(lines) : lines[k] = Dashes
  THEN CHOOSE k \in 2..Len(lines) :
         lines[k] = Dashes /\ \A m \in 2..(k - 1) : lines[m] # Dashes
  ELSE 0

\* C11: when the lines read open with a front matter that is closed, every
\* component leaves the lines up to the closing '---' as they were, and the
\* heading and the list component treat the line right after it.
C11_FrontMatterKept ==
  (Transformed /\ ClosingAt(run.split) > 0) =>
    LET k == ClosingAt(run.split)
        p == HeadingPrefix(settings.headingLevel)
    IN  /\ SubSeq(run.afterDeck, 1, k) = SubSeq(run.split, 1, k)
        /\ SubSeq(run.afterHeading, 1, k) = SubSeq(run.split, 1, k)
        /\ SubSeq(run.lines, 1, k) = SubSeq(run.split, 1, k)
        /\ (run.called.heading /\ Len(run.afterDeck) > k /\ StartsWith(run.afterDeck[k + 1], p)) =>
             /\ ~Includes(run.afterHeading[k + 1], <<">">>)
             /\ Len(run.afterHeading) > k + 1
        /\ (run.called.list /\ Len(run.afterHeading) > k /\ isEmptyItem(run.afterHeading[k + 1])) =>
             (Len(run.lines) > k => run.lines[k + 1] # run.afterHeading[k + 1])

\* a run of the three components on a front matter that holds a heading to
\* clean and an empty item, followed by the same two lines
C11_Witness ==
  /\ run.pc = "done" /\ run.inScope /\ run.changed
  /\ run.called = [deck |-> TRUE, heading |-> TRUE, list |-> TRUE]
  /\ run.split = <<Dashes, LnHeadingJunk, LnEmptyItem, Dashes, LnHeadingJunk, LnEmptyItem, LnText>>
  /\ SubSeq(run.lines, 1, 4) = <<Dashes, LnHeadingJunk, LnEmptyItem, Dashes>>
  /\ LnEmptyItem \notin Range(SubSeq(run.lines, 5, Len(run.lines)))
\* a run whose scope mode has a list of one pattern
OnePattern ==
  /\ run.pc # "idle"
  /\ \/ settings.runScope = "include" /\ Len(settings.includePaths) = 1
     \/ settings.runScope = "exclude" /\ Len(settings.excludePaths) = 1

\* that pattern as the settings hold it
ThePattern ==
  IF settings.runScope = "include" THEN settings.includePaths[1] ELSE settings.excludePaths[1]

\* whether the run found the pattern to match the path of the file
PatternMatched == IF settings.runScope = "include" THEN run.inScope ELSE ~run.inScope

\* whether the glob from position i on matches the path from position p to
\* its end: ** stands for any characters, * for any characters but /, any
\* other character for itself
RECURSIVE GlobMatches(_, _, _, _)
GlobMatches(glob, i, path, p) ==
  IF i > Len(glob) THEN p > Len(path)
  ELSE IF i < Len(glob) /\ glob[i] = "*" /\ glob[i + 1] = "*"
       THEN \E q \in p..(Len(path) + 1) : GlobMatches(glob, i + 2, path, q)
  ELSE IF glob[i] = "*"
       THEN \E q \in p..(Len(path) + 1) :
              /\ \A m \in p..(q - 1) : path[m] # "/"
              /\ GlobMatches(glob, i + 1, path, q)
  ELSE p <= Len(path) /\ path[p] = glob[i] /\ GlobMatches(glob, i + 1, path, p + 1)

\* the characters of a pattern that C14 is about: the pattern has none
\* besides the stars that the compiled expression reads as an operator
PlainBesidesStars(pattern) == "?" \notin Range(pattern) /\ Section \notin Range(pattern)

\* C12: the compiled pattern matches the whole path, a * standing for any
\* characters without a / and a ** for any characters: a/** matches the
\* paths under a at any depth, a/* only the ones directly in a.
C12_StarsMatchSegments ==
  (OnePattern /\ ~EndsWith(ThePattern, <<"/">>) /\ PlainBesidesStars(ThePattern)) =>
    /\ PatternMatched <=> GlobMatches(ThePattern, 1, file.path, 1)
    /\ ThePattern = GlobDirAll => (PatternMatched <=> StartsWith(file.path, <<"a", "/">>))
    /\ ThePattern = GlobDirOne =>
         (PatternMatched <=> /\ StartsWith(file.path, <<"a", "/">>)
                             /\ "/" \notin Range(Slice(file.path, 2)))

\* a run that a/* kept a path deeper in a out of
C12_Witness ==
  /\ OnePattern /\ run.pc = "done"
  /\ settings.runScope = "include" /\ ThePattern = GlobDirOne
  /\ file.path = PathDeep /\ ~run.inScope

\* C13: a pattern without stars that ends in / matches exactly the paths
\* that begin with it; excluding Archive/ keeps Archive/x.md out and
\* Notes/x.md in.
C13_FolderPrefix ==
  (OnePattern /\ EndsWith(ThePattern, <<"/">>) /\ "*" \notin Range(ThePattern)) =>
    /\ PatternMatched <=> StartsWith(file.path, ThePattern)
    /\ (settings.runScope = "exclude" /\ ThePattern = PatArchive) =>
         /\ file = FileArchive => ~run.inScope
         /\ file = FileNotes => run.inScope

\* C14: a pattern without stars matches a path iff the two are equal.
C14_OtherCharactersLiteral ==
  (OnePattern /\ ~EndsWith(ThePattern, <<"/">>) /\ "*" \notin Range(ThePattern)) =>
    (PatternMatched <=> file.path = ThePattern)
\* C15: each switch decides whether its own component is called; the ones
\* called run in the order deck, headings, lists, each on the lines the one
\* before left, and a component not called changes nothing and reports
\* nothing.
C15_SwitchesGateOwnComponent ==
  Transformed =>
    /\ run.called = [deck |-> settings.enableTargetDeck,
                     heading |-> settings.enableHeadingOps,
                     list |-> settings.enableListTidy]
    /\ run.afterDeck =
         IF settings.enableTargetDeck
         THEN ensureTargetDeck(run.split, file.basename, settings.targetDeckTemplate).lines
         ELSE run.split
    /\ run.afterHeading =
         IF settings.enableHeadingOps
         THEN rewriteHeadingsAndCollectLists(run.afterDeck, file.basename, settings.headingLevel).lines
         ELSE run.afterDeck
    /\ run.lines =
         IF settings.enableListTidy THEN tidyLists(run.afterHeading).lines ELSE run.afterHeading
    /\ ~settings.enableTargetDeck => ~run.ret.deck
    /\ ~settings.enableHeadingOps => ~run.ret.heading
    /\ ~settings.enableListTidy => ~run.ret.list
    /\ run.changed <=> (run.ret.deck \/ run.ret.heading \/ run.ret.list)

\* a run of the heading component alone on lines the two others would
\* change: no deck block, and an empty item that stays
C15_Witness ==
  /\ run.pc = "done" /\ run.inScope
  /\ run.called = [deck |-> FALSE, heading |-> TRUE, list |-> FALSE]
  /\ run.ret.heading
  /\ ~HasMarker(run.lines)
  /\ LnEmptyItem \in Range(run.lines)

\* the lines from the end of the front matter on that start with the prefix
HeadingsOf(lines, prefix) ==
  FilterFrom(lines, {k \in (findYamlEnd(lines) + 1)..Len(lines) : StartsWith(lines[k], prefix)}, 1)

\* a character the heading clean-up keeps
KeptInHeading(c) == c # Backtick /\ c # "<" /\ c # ">"

\* C16: the heading component leaves as many heading lines of the level as
\* it was given; the text of each is the text it had with the grave accents
\* and angle brackets deleted and the white space at its ends cut off, so
\* none of the three characters and no white space at the ends is left; and
\* it reports a change only when it changed the lines.
C16_HeadingTextCleaned ==
  (Transformed /\ run.called.heading) =>
    LET p    == HeadingPrefix(settings.headingLevel)
        hin  == HeadingsOf(run.afterDeck, p)
        hout == HeadingsOf(run.afterHeading, p)
    IN  /\ Len(hout) = Len(hin)
        /\ \A n \in 1..Len(hin) :
             LET raw  == SubSeq(hin[n], Len(p) + 1, Len(hin[n]))
                 text == SubSeq(hout[n], Len(p) + 1, Len(hout[n]))
             IN  /\ text = Trim(SelectSeq(raw, KeptInHeading))
                 /\ \A k \in 1..Len(text) : KeptInHeading(text[k])
                 /\ text # <<>> => (text[1] \notin WhiteSpace /\ text[Len(text)] \notin WhiteSpace)
                 /\ hout[n] # hin[n] <=> text # raw
        /\ run.ret.heading => run.afterHeading # run.afterDeck

\* a run in which the heading with a grave accent, an angle bracket and a
\* space at its end was cleaned
C16_Witness ==
  /\ Transformed /\ run.called.heading /\ run.ret.heading
  /\ LnHeadingJunk \in Range(HeadingsOf(run.afterDeck, HeadingPrefix(4)))
  /\ settings.headingLevel = 4
  /\ LnHeadingJunk \notin Range(run.afterHeading)

\* C17: with no marker in the lines read, the deck component inserts at the
\* end of the front matter if there is one, else at the first line that
\* trimmed starts with #, else at 0; after the closing line of a front
\* matter it inserts a blank line first, and in every other case only the
\* marker, the rendered template and a blank line; the lines read stay, in
\* their order.
C17_DeckBlockPlaced ==
  (Transformed /\ run.called.deck /\ \A k \in 1..Len(run.split) : ~Includes(run.split[k], Marker)) =>
    LET in    == run.split
        out   == run.afterDeck
        y     == ClosingAt(in)
        marks == {k \in 1..Len(in) : StartsWith(Trim(in[k]), <<"#">>)}
        idx   == IF y > 0 THEN y ELSE IF marks # {} THEN Min(marks) - 1 ELSE 0
        tpl   == RenderTemplate(settings.targetDeckTemplate, file.basename)
    IN  out = SubSeq(in, 1, idx)
                \o (IF y > 0 THEN << <<>> >> ELSE <<>>)
                \o <<Marker, tpl, <<>> >>
                \o SubSeq(in, idx + 1, Len(in))

\* C18: findYamlEnd of the lines of a run is the index after the first
\* '---' that follows a '---' on line 0, and 0 when line 0 is not '---',
\* when no later line is '---' and for no lines at all; it lies in
\* 0..length.
C18_YamlEndLocated ==
  Transformed =>
    /\ \A lines \in {run.split, run.afterDeck, run.afterHeading, run.lines} :
         /\ findYamlEnd(lines) = ClosingAt(lines)
         /\ (Len(lines) = 0 \/ lines[1] # Dashes) => findYamlEnd(lines) = 0
         /\ findYamlEnd(lines) \in 0..Len(lines)
    /\ findYamlEnd(<<>>) = 0

\* a run on lines with a closed front matter and lines after it, and whose
\* final lines are other lines with the same front matter
C18_Witness ==
  /\ Transformed /\ run.changed
  /\ ClosingAt(run.split) > 1
  /\ findYamlEnd(run.split) = ClosingAt(run.split)
  /\ findYamlEnd(run.split) < Len(run.split)
  /\ findYamlEnd(run.lines) = findYamlEnd(run.split)

\* C19: the list component run again on the lines it left changes nothing
\* and reports no change.
C19_TidyTwiceIsTidyOnce ==
  (Transformed /\ run.called.list) =>
    tidyLists(run.lines) = [lines |-> run.lines, changed |-> FALSE]

\* the second run of the list component alone, on lines in which the first
\* run put a line of one space
C19_Witness ==
  /\ runs = 2 /\ run.pc = "done" /\ run.inScope
  /\ run.called = [deck |-> FALSE, heading |-> FALSE, list |-> TRUE]
  /\ SpaceLine \in Range(run.split)
  /\ run.lines = run.split /\ ~run.changed

\* C20: when every list line the list component is given, from the end of
\* the front matter on, is an empty item, it only removes these lines;
\* '- ', 'text' becomes 'text'.
C20_EmptiedBlockLeftAlone ==
  (Transformed /\ run.called.list) =>
    LET in    == run.afterHeading
        start == findYamlEnd(in)
        lists == {k \in (start + 1)..Len(in) : isList(in[k])}
    IN  (\A k \in lists : isEmptyItem(in[k])) =>
          run.lines = FilterFrom(in, (1..Len(in)) \ lists, 1)

\* the trimmed form of l begins with the comment opener
OpensComment(l) == StartsWith(Trim(l), <<"<", "!", "-", "-">>)

\* C21: the list component takes a line whose trimmed form begins with
\* '<!--' for a comment, closed on that line or not: it adds one line per
\* list line followed by a line that is neither blank, nor a list line, nor
\* begins with '<!--', and a line beginning with '<!--' that followed a list
\* item with content still follows it directly.
C21_CommentOpenerIsComment ==
  (Transformed /\ run.called.list) =>
    LET in      == run.afterHeading
        out     == run.lines
        start   == findYamlEnd(in)
        empties == {k \in start..(Len(in) - 1) : isEmptyItem(At(in, k))}
        ends    == {e \in start..(Len(in) - 2) :
                      /\ isList(At(in, e))
                      /\ ~isBlankLine(At(in, e + 1))
                      /\ ~isList(At(in, e + 1))
                      /\ ~OpensComment(At(in, e + 1))}
        pos(e)  == e - Cardinality({k \in empties : k <= e})
                     + Cardinality({n \in ends : n < e})
    IN  /\ Len(out) = Len(in) - Cardinality(empties) + Cardinality(ends)
        /\ \A e \in start..(Len(in) - 2) :
             (isList(At(in, e)) /\ ~isEmptyItem(At(in, e)) /\ OpensComment(At(in, e + 1))) =>
               At(out, pos(e) + 1) = At(in, e + 1)

\* the expression compiled from the one pattern of the run
TheMatcher ==
  IF settings.runScope = "include" THEN includePatterns[1] ELSE excludePatterns[1]

\* C22 as stated: a pattern without / matches only paths without /, and the
\* empty pattern only the empty path.
C22_NoSlashTopLevelOnly ==
  (OnePattern /\ "/" \notin Range(ThePattern)) =>
    /\ PatternMatched => "/" \notin Range(file.path)
    /\ ThePattern = <<>> => (PatternMatched <=> file.path = <<>>)

\* C22, amended: a pattern that holds neither a / nor two stars or two
\* section signs in a row matches only paths without /; '*.md' matches
\* 'x.md' and not 'a/x.md'; the empty pattern matches the empty path and
\* no other.
C22_NoSlashNoDoubleStar ==
  (OnePattern /\ "/" \notin Range(ThePattern)
              /\ ~Includes(ThePattern, <<"*", "*">>)
              /\ ~Includes(ThePattern, <<Section, Section>>)) =>
    /\ PatternMatched => "/" \notin Range(file.path)
    /\ ThePattern = GlobAnyMd =>
         /\ file.path = PathTop => PatternMatched
         /\ file.path = PathInDir => ~PatternMatched
    /\ ThePattern = <<>> =>
         /\ PatternMatched <=> file.path = <<>>
         /\ RegExpTest(TheMatcher, <<>>)

\* a run that '*.md' kept a path in a folder out of
C22_Witness ==
  /\ OnePattern /\ run.pc = "done"
  /\ settings.runScope = "include" /\ ThePattern = GlobAnyMd
  /\ file.path = PathInDir /\ ~run.inScope

\* the lines each component leaves under the switches, the heading level
\* and the template of configuration s
DeckUnder(s, lines) ==
  IF s.enableTargetDeck THEN ensureTargetDeck(lines, file.basename, s.targetDeckTemplate).lines
  ELSE lines

HeadingUnder(s, lines) ==
  IF s.enableHeadingOps THEN rewriteHeadingsAndCollectLists(lines, file.basename, s.headingLevel).lines
  ELSE lines

ListUnder(s, lines) == IF s.enableListTidy THEN tidyLists(lines).lines ELSE lines

\* C23: a run uses one configuration: the switches, the heading level and
\* the template of its transformation are those of the configuration its
\* scope check read, whatever handlers ran while it waited for the
\* document.
C23_OneSnapshotPerRun ==
  Transformed =>
    /\ run.called = [deck    |-> run.config.enableTargetDeck,
                     heading |-> run.config.enableHeadingOps,
                     list    |-> run.config.enableListTidy]
    /\ run.lines = ListUnder(run.config, HeadingUnder(run.config, DeckUnder(run.config, run.split)))

\* a heading line of any level: one to six # and a space
IsHeadingLine(l) == \E n \in AllLevels : StartsWith(l, HeadingPrefix(n))

NoHeadingLine(lines) == \A k \in 1..Len(lines) : ~IsHeadingLine(lines[k])

NoListLine(lines) == \A k \in 1..Len(lines) : ~isList(lines[k])

\* the run changed nothing: the lines are the ones read, changed is false
\* and vault.modify was not called
NothingChanged == run.lines = run.split /\ ~run.changed /\ "modify" \notin Range(run.effects)

\* C24 as stated: with the three components enabled and scope all, a run on
\* an empty document, on a document with no heading line or on a document
\* with no list line changes nothing.
C24_NoChangeUnderDefaults ==
  (/\ Transformed
   /\ settings.runScope = "all"
   /\ settings.enableTargetDeck /\ settings.enableHeadingOps /\ settings.enableListTidy
   /\ \/ run.split = << <<>> >>
      \/ NoHeadingLine(run.split)
      \/ NoListLine(run.split)) => NothingChanged

\* C24, amended: each component leaves alone a document that holds nothing
\* for it: the heading component changes no line and returns false on
\* lines with no heading line, the list component on lines with no list
\* line; a run on a document with neither (the empty document is one)
\* changes nothing when the deck component is off or the document holds
\* the marker; otherwise the deck block is what it adds.
C24_NothingForAComponent ==
  Transformed =>
    /\ (run.called.heading /\ NoHeadingLine(run.afterDeck)) =>
         (run.afterHeading = run.afterDeck /\ ~run.ret.heading)
    /\ (run.called.list /\ NoListLine(run.afterHeading)) =>
         (run.lines = run.afterHeading /\ ~run.ret.list)
    /\ (NoHeadingLine(run.split) /\ NoListLine(run.split)) =>
         IF run.called.deck /\ ~HasMarker(run.split)
         THEN run.ret.deck /\ run.afterHeading = run.afterDeck /\ Len(run.afterDeck) > Len(run.split)
         ELSE NothingChanged

\* a run with the three components on over a document that holds the
\* marker and neither a heading nor a list line
C24_Witness ==
  /\ run.pc = "done" /\ run.inScope
  /\ run.called = [deck |-> TRUE, heading |-> TRUE, list |-> TRUE]
  /\ run.split = <<Marker, LnText>>
  /\ NothingChanged

\* the 0-based indices from the end of the front matter on of the lines that
\* start with the prefix
HeadingIndices(lines, prefix) ==
  {k \in findYamlEnd(lines)..(Len(lines) - 1) : StartsWith(At(lines, k), prefix)}

\* the lines that are neither headings of the level nor link-shaped
PlainLines(lines, prefix) ==
  FilterFrom(lines, {k \in 1..Len(lines) :
                       ~StartsWith(lines[k], prefix) /\ ~IsLinkShaped(Trim(lines[k]))}, 1)

\* C25: the scan of the heading component ends having taken each heading
\* line of the level, from the end of the front matter on, once and in
\* order from the top: the lines it took are the heading lines it leaves,
\* as many as it was given, and never a line it added; it adds at most one
\* line per heading and deletes none.
C25_EachHeadingOnce ==
  (Transformed /\ run.called.heading) =>
    LET in   == run.afterDeck
        out  == run.afterHeading
        p    == HeadingPrefix(settings.headingLevel)
        scan == rewriteHeadingsAndCollectLists(in, file.basename, settings.headingLevel)
        v    == scan.visited
        hin  == HeadingIndices(in, p)
    IN  /\ scan.lines = out
        /\ Len(v) = Cardinality(hin)
        /\ \A n \in 1..(Len(v) - 1) : v[n] < v[n + 1]
        /\ Range(v) = HeadingIndices(out, p)
        /\ \A n \in 1..Len(v) :
             /\ v[n] - NthOf(hin, n) \in 0..(n - 1)
             /\ Slice(At(out, v[n]), Len(p)) = CleanHeading(Slice(At(in, NthOf(hin, n)), Len(p)))
        /\ Len(out) >= Len(in)
        /\ Len(out) <= Len(in) + Cardinality(hin)
        /\ PlainLines(out, p) = PlainLines(in, p)
        /\ SubSeq(out, 1, findYamlEnd(in)) = SubSeq(in, 1, findYamlEnd(in))

\* a run over two headings, the first of which had a line added under it
\* before the second was reached
C25_Witness ==
  /\ Transformed /\ run.called.heading
  /\ run.afterDeck = <<LnHeading, LnHeadingJunk>>
  /\ Len(run.afterHeading) = 4
  /\ HeadingIndices(run.afterHeading, HeadingPrefix(settings.headingLevel)) = {0, 2}

====
